---- MODULE Spec2Model ----
(***************************************************************************)
(* The background-music player of src/chiptune-music.js (createPlayer,     *)
(* lines 857-1469: the build with instruments and separate melody/bass     *)
(* cursors), together with the parts of its environment it talks to: the   *)
(* AudioContext constructor and its contexts (state, clock, resume),       *)
(* setInterval/clearInterval, and the notes handed to the audio engine.    *)
(*                                                                         *)
(* Times are integer milliseconds (the code uses float seconds).  Note     *)
(* durations are integer quarter-beats (the tune library uses 0.5 .. 4     *)
(* beats).  Volumes are integer percent, with NaN a value of its own.      *)
(***************************************************************************)
EXTENDS Integers, Sequences, FiniteSets, TLC

\* ---------------------------------------------------------------- bounds
MaxTime == 200          \* the audio clock of a context is followed up to here (ms)
MaxCtx == 2             \* AudioContexts constructed in one behaviour
MaxPending == 1         \* unlock() calls awaiting ctx.resume() at one time
MaxLoop == 6            \* steps of one scheduler tick that are followed
MaxPlays == 4           \* tune selections that are followed after a playlist is set
MaxConfig == 1          \* setTempo/setSequence/setPlaylist calls in one behaviour
MaxClock == 2100        \* the audio clock is followed up to here where beats are timed (ms)
MaxMidi == 127          \* the highest pitch index given to a player

\* ------------------------------------------------------ program constants
DefaultTempo == 120     \* createPlayer: tempo option default (BPM)
DefaultVolume == 22     \* createPlayer: volume option default (0.22)
ScheduleAheadMs == 120  \* createPlayer: scheduleAheadSec default (0.12 s)
LookaheadMs == 25       \* createPlayer: lookaheadMs default
StartLeadMs == 50       \* start: nextNoteTime = ctx.currentTime + 0.05
StopEpsMs == 20         \* instrument voices: stopTime = startTime + durationSec + 0.02
TempoMin == 20          \* setTempo: bpm > 20
TempoMax == 400         \* setTempo: bpm < 400
MelodyGatePct == 98     \* schedule: durationSec = durSec * 0.98
BassGatePct == 95       \* schedule: durationSec = bDurSec * 0.95
QuartersPerBeat == 4    \* unit of a note's dur in the model: a quarter of a beat
MsPerMinute == 60000    \* schedule: secondsPerBeat = 60 / tempo
BellMinMs == 800        \* playBell: extendedDuration = Math.max(durationSec, 0.8)

\* JavaScript values that are not ordinary numbers
NaN == 0 - 999001       \* the number NaN: every comparison with it is false
NotNumber == 0 - 999002 \* any value v with typeof v !== 'number'
NoMidi == 0 - 999003    \* a note with no midi (midi == null): a rest
Null == 0               \* null, for ctx and timerId (live handles are positive)

VARIABLES
  \* createPlayer's closure variables (lines 860-885, 909)
  melody, bass, playlist, shufflePlaylist, playlistOrder, playlistPos,
  currentTuneName, tempo, volume, enabled, muted, isPlaying, timerId,
  melodyPos, bassPos, nextNoteTime, ctx, masterGain, musicGain,
  currentInstrument,
  \* the environment
  hasAudio,     \* globalThis.AudioContext exists
  ctxState,     \* state of every context constructed so far: id -> state
  now,          \* ctx.currentTime of the player's context (ms)
  timers,       \* interval timers registered and not cleared
  notes,        \* notes submitted to the audio engine and still sounding
  pending,      \* unlock() calls suspended at `await ctx.resume()`
  last,         \* the most recent call or callback and how it ended
  \* what has happened so far (history, not read by the player)
  stepsSinceStart, \* passes of the scheduling loop since the last start()
  edited,          \* setSequence/setPlaylist was called since the last start()
  tunesPlayed,     \* playlist indices made the active tune since the playlist was set
  configCalls,     \* calls of setTempo, setSequence and setPlaylist so far
  t0,              \* nextNoteTime as the last start() set it
  \* the passes of the scheduling loop made by the step just taken, in order
  trace,
  \* a player of the UMD build (lines 54-333) given the same options, calls
  \* and clock, where one is run next to the player above
  umd,
  \* contexts with a statechange event fired and not yet delivered to the
  \* handler ensure() registered (lines 958-960), where events are followed
  notices

playerVars == <<melody, bass, playlist, shufflePlaylist, playlistOrder,
                playlistPos, currentTuneName, tempo, volume, enabled, muted,
                isPlaying, timerId, melodyPos, bassPos, nextNoteTime, ctx,
                masterGain, musicGain, currentInstrument>>
envVars == <<hasAudio, ctxState, now, timers, notes, pending>>
histVars == <<stepsSinceStart, edited, tunesPlayed, configCalls, t0>>
vars == <<playerVars, envVars, last, histVars, trace, umd, notices>>

seqVars == <<melody, bass, playlist, shufflePlaylist, playlistOrder,
             playlistPos, currentTuneName, tempo, currentInstrument>>
transportVars == <<isPlaying, timerId, melodyPos, bassPos, nextNoteTime>>
ctxVars == <<ctx, masterGain, musicGain>>

\* ------------------------------------------------------------ data model
Note(m, d) == [midi |-> m, dur |-> d]
NoNote == Note(NoMidi, NotNumber)     \* melody[pos] when it is null/undefined

Tune(n, mel, hb, bs, t, inst) ==
  [name |-> n, melody |-> mel, hasBass |-> hb, bass |-> bs, tempo |-> t,
   instrument |-> inst]

\* A null playlist and an empty one behave alike everywhere in the code
\* (every use is guarded by `!playlist || !playlist.length`); both are <<>>.
\* A null playlistOrder is <<>> as well: an order is only ever built for a
\* non-empty playlist.
NoPlaylist == <<>>
NoOrder == <<>>
NoName == ""

\* Math.pow(2, r / 12) for r = 0 .. 11, in millionths
SemitoneRatio ==
  <<1000000, 1059463, 1122462, 1189207, 1259921, 1334840,
    1414214, 1498307, 1587401, 1681793, 1781797, 1887749>>

\* midiToFreq counting the semitones from middle C (60)
midiToFreqFromC(midi) ==
  LET k == midi - 60
      inOctave == (440 * SemitoneRatio[(k % 12) + 1]) \div 1000
  IN IF k >= 0 THEN inOctave * 2^(k \div 12)
     ELSE inOctave \div 2^(0 - (k \div 12))

\* midiToFreq(midi) (lines 845-847), in mHz: 440 * 2^((midi - 69) / 12), the
\* power taken as 2^q * 2^(r / 12) with (midi - 69) = 12 q + r
midiToFreq(midi) ==
  LET k == midi - 69
      inOctave == (440 * SemitoneRatio[(k % 12) + 1]) \div 1000
  IN IF k >= 0 THEN inOctave * 2^(k \div 12)
     ELSE inOctave \div 2^(0 - (k \div 12))

clamp01(x) ==
  IF x = NaN THEN NaN          \* NaN < 0 and NaN > 1 are both false
  ELSE IF x < 0 THEN 0
  ELSE IF x > 100 THEN 100
  ELSE x

IsNumber(v) == v # NotNumber

\* setTempo with the bounds 20 and 400 accepted
setTempoValueInclusive(cur, bpm) ==
  IF IsNumber(bpm) /\ bpm # NaN /\ bpm >= TempoMin /\ bpm <= TempoMax
  THEN bpm ELSE cur

\* setTempo(bpm): the new value of tempo
setTempoValue(cur, bpm) ==
  IF IsNumber(bpm) /\ bpm # NaN /\ bpm > TempoMin /\ bpm < TempoMax
  THEN bpm ELSE cur

\* arithmetic on numbers one of which may be NaN
Less(a, b) == a # NaN /\ b # NaN /\ a < b
Plus(a, b) == IF a = NaN \/ b = NaN THEN NaN ELSE a + b
Scaled(d, pct) == IF d = NaN THEN NaN ELSE (d * pct) \div 100

\* durBeats * secondsPerBeat, in ms, for a dur in quarter-beats
DurMs(durQ, bpm) ==
  IF bpm = NaN THEN NaN ELSE (durQ * MsPerMinute) \div (bpm * QuartersPerBeat)

\* ------------------------------------------------------------- sequencer
\* The sequencer part of the closure, as a record the helpers transform.
SeqState ==
  [melody |-> melody, bass |-> bass, playlist |-> playlist,
   shufflePlaylist |-> shufflePlaylist, playlistOrder |-> playlistOrder,
   playlistPos |-> playlistPos, currentTuneName |-> currentTuneName,
   tempo |-> tempo, currentInstrument |-> currentInstrument,
   melodyPos |-> melodyPos, bassPos |-> bassPos, played |-> tunesPlayed]

\* an exchange that loses arr[i]
SwapCopies(arr, i, j) == [arr EXCEPT ![i] = arr[j]]

\* shuffleArray (lines 889-892): arr[i] and arr[j] change places
Swap(arr, i, j) == [arr EXCEPT ![i] = arr[j], ![j] = arr[i]]

\* shuffleArray(arr), from index i down: every result Math.random can give
RECURSIVE ShuffleFrom(_, _)
ShuffleFrom(arr, i) ==
  IF i <= 1 THEN {arr}
  ELSE UNION {ShuffleFrom(Swap(arr, i, j), i - 1) : j \in 1..i}

shuffleArray(arr) == ShuffleFrom(arr, Len(arr))

\* setTuneByIndex(idx, silent); idx is 0-based as in the code
setTuneByIndex(S, idx) ==
  IF Len(S.playlist) = 0 THEN S
  ELSE IF idx + 1 \notin DOMAIN S.playlist THEN S
  ELSE LET t == S.playlist[idx + 1] IN
    [S EXCEPT !.melody = t.melody,
              !.bass = IF t.hasBass THEN t.bass ELSE S.bass,
              !.tempo = setTempoValue(S.tempo, t.tempo),
              !.currentInstrument =
                 IF t.instrument # "" THEN t.instrument ELSE S.currentInstrument,
              !.currentTuneName =
                 IF t.name # "" THEN t.name ELSE "tune-" \o ToString(idx),
              !.melodyPos = 0,
              !.bassPos = 0,
              !.played = Append(S.played, idx)]

\* initPlaylistIfNeeded(): the set of results (the shuffle is random)
initPlaylistIfNeeded(S) ==
  IF Len(S.playlist) = 0 THEN {S}
  ELSE LET ident == [i \in 1..Len(S.playlist) |-> i - 1]
           orders == IF S.playlistOrder # NoOrder THEN {S.playlistOrder}
                     ELSE IF S.shufflePlaylist THEN shuffleArray(ident)
                     ELSE {ident}
       IN {LET S1 == [S EXCEPT !.playlistOrder = o,
                               !.playlistPos =
                                  IF S.playlistOrder = NoOrder THEN 0
                                  ELSE S.playlistPos]
           IN IF Len(S1.melody) = 0
              THEN setTuneByIndex(S1, S1.playlistOrder[S1.playlistPos + 1])
              ELSE S1
           : o \in orders}

\* nextTune(): the set of results
nextTune(S) ==
  IF Len(S.playlist) = 0 THEN {S}
  ELSE UNION {
    LET p == S1.playlistPos + 1
        wrapped == p >= Len(S1.playlistOrder)
        orders == IF wrapped /\ S1.shufflePlaylist
                  THEN shuffleArray(S1.playlistOrder)
                  ELSE {S1.playlistOrder}
    IN {LET S2 == [S1 EXCEPT !.playlistPos = IF wrapped THEN 0 ELSE p,
                             !.playlistOrder = o]
        IN setTuneByIndex(S2, S2.playlistOrder[S2.playlistPos + 1])
        : o \in orders}
    : S1 \in initPlaylistIfNeeded(S)}

\* the argument of setSequence: null, or an object whose melody and bass may
\* be arrays and whose tempo may be a number
Sequence(hm, mel, hb, bs, t) ==
  [given |-> TRUE, hasMelody |-> hm, melody |-> mel, hasBass |-> hb,
   bass |-> bs, tempo |-> t]
NoSequence ==
  [given |-> FALSE, hasMelody |-> FALSE, melody |-> <<>>, hasBass |-> FALSE,
   bass |-> <<>>, tempo |-> NotNumber]

\* setSequence that takes the tempo and the bass line but not the melody
setSequenceKeepsMelody(S, seq) ==
  IF ~seq.given THEN S
  ELSE [S EXCEPT !.bass = IF seq.hasBass THEN seq.bass ELSE S.bass,
                 !.tempo = setTempoValue(S.tempo, seq.tempo)]

\* setSequence(seq) (lines 992-997)
setSequence(S, seq) ==
  IF ~seq.given THEN S
  ELSE [S EXCEPT !.melody = IF seq.hasMelody THEN seq.melody ELSE S.melody,
                 !.bass = IF seq.hasBass THEN seq.bass ELSE S.bass,
                 !.tempo = setTempoValue(S.tempo, seq.tempo)]

\* setPlaylist(pl, shuffle) (lines 999-1012): the set of results
setPlaylist(S, pl, shuffle) ==
  LET S1 == [S EXCEPT !.playlist = pl,
                      !.shufflePlaylist = shuffle,
                      !.playlistOrder = NoOrder,
                      !.playlistPos = 0,
                      !.currentTuneName = NoName,
                      !.played = <<>>]
  IN IF Len(pl) > 0 THEN initPlaylistIfNeeded(S1) ELSE {S1}

\* ------------------------------------------------------------- scheduler
Max(a, b) == IF a >= b THEN a ELSE b

\* seq[pos] with a 0-based pos; undefined (NoNote) outside the array
NoteAt(seq, pos) == IF pos + 1 \in DOMAIN seq THEN seq[pos + 1] ELSE NoNote

\* playOscNote (lines 1014-1027): the synthesis an instrument tag is routed to
playOscNote(instrument) ==
  IF instrument \in {"piano", "saxophone", "bell"} THEN instrument ELSE "flute"

\* every voice stopping after the duration it was given
OscStopPlain(inst, start, dur) == start + dur + StopEpsMs

\* the time at which the oscillators of one note are told to stop
OscStop(inst, start, dur) ==
  start + (IF playOscNote(inst) = "bell" THEN Max(dur, BellMinMs) ELSE dur) + StopEpsMs

\* one submitted note, as the audio engine holds it
Voice(v, n, inst, start, dur) ==
  [voice |-> v, midi |-> n.midi,
   freq |-> IF n.midi = NoMidi THEN NaN ELSE midiToFreq(n.midi),
   inst |-> inst, start |-> start, dur |-> dur,
   stop |-> OscStop(inst, start, dur)]

\* cursors of which the bass one starts over whenever the melody wraps
advanceCursorsBassFollows(S) ==
  LET wraps == Len(S.melody) > 0 /\ S.melodyPos + 1 >= Len(S.melody)
      afterMelody ==
        IF Len(S.melody) = 0 THEN {S}
        ELSE IF wraps THEN nextTune([S EXCEPT !.melodyPos = 0])
             ELSE {[S EXCEPT !.melodyPos = S.melodyPos + 1]}
  IN {IF Len(S1.bass) = 0 THEN S1
      ELSE [S1 EXCEPT !.bassPos =
              IF wraps \/ S1.bassPos + 1 >= Len(S1.bass) THEN 0 ELSE S1.bassPos + 1]
      : S1 \in afterMelody}

\* lines 1354-1364: the cursors after one step (nextTune may shuffle)
advanceCursors(S) ==
  LET afterMelody ==
        IF Len(S.melody) = 0 THEN {S}
        ELSE IF S.melodyPos + 1 >= Len(S.melody)
             THEN nextTune([S EXCEPT !.melodyPos = 0])
             ELSE {[S EXCEPT !.melodyPos = S.melodyPos + 1]}
  IN {IF Len(S1.bass) = 0 THEN S1
      ELSE [S1 EXCEPT !.bassPos =
              IF S1.bassPos + 1 >= Len(S1.bass) THEN 0 ELSE S1.bassPos + 1]
      : S1 \in afterMelody}

\* a voice that sounds at every position, rests included
hasPitchAlways(n) == TRUE

\* lines 1330, 1340: the position holds a note with a pitch
hasPitch(n) == n.midi # NoMidi

\* line 1327: the beats of a step, in quarters
durBeatsOneBeat(m) == QuartersPerBeat

durBeats(m) == IF IsNumber(m.dur) THEN m.dur ELSE QuartersPerBeat

\* line 1352 with the cursor brought up to the clock first
advanceTimeFromClock(next, durMs) == Plus(Max(next, now), durMs)

\* line 1352: nextNoteTime += durSec
advanceTime(next, durMs) == Plus(next, durMs)

\* what one completed pass did: the cursors and notes it read, the time cursor
\* before and after it, and the tempo, tune and instrument it found
Pass(S, m, b, start, next) ==
  [melodyPos |-> S.melodyPos, bassPos |-> S.bassPos, m |-> m, b |-> b,
   start |-> start, next |-> next, tempo |-> S.tempo,
   tune |-> S.currentTuneName, inst |-> S.currentInstrument]

\* One pass of the while loop of schedule() (lines 1323-1364) from loop state
\* L = [S, next, notes, err, steps, cut, trace]: every way it can end.  bpm is the tempo
\* read before the loop; canPlay is `ctx && musicGain` of playOscNote.  An
\* emission that reaches the audio engine may throw, and does throw when its
\* duration is NaN (the engine takes finite times only).
scheduleStep(L, bpm, canPlay) ==
  LET S == L.S
      m == IF Len(S.melody) > 0 THEN NoteAt(S.melody, S.melodyPos) ELSE NoNote
      b == IF Len(S.bass) > 0 THEN NoteAt(S.bass, S.bassPos) ELSE NoNote
      start == L.next
      durQ == durBeats(m)
      durMs == DurMs(durQ, bpm)
      bDurQ == IF IsNumber(b.dur) THEN b.dur ELSE QuartersPerBeat
      bDurMs == DurMs(bDurQ, bpm)
      mPlays == hasPitch(m) /\ canPlay
      bPlays == hasPitch(b) /\ canPlay
      mFails == mPlays /\ durMs = NaN
      bFails == bPlays /\ bDurMs = NaN
      mNotes == IF mPlays /\ ~mFails
                THEN {Voice("melody", m, S.currentInstrument, start,
                            Scaled(durMs, MelodyGatePct))}
                ELSE {}
      bNotes == IF bPlays /\ ~bFails
                THEN {Voice("bass", b, S.currentInstrument, start,
                            Scaled(bDurMs, BassGatePct))}
                ELSE {}
      mThrows == IF mPlays THEN {[L EXCEPT !.err = TRUE]} ELSE {}
      bThrows == IF bPlays /\ ~mFails
                 THEN {[L EXCEPT !.err = TRUE, !.notes = L.notes \cup mNotes]}
                 ELSE {}
      done == IF mFails \/ bFails THEN {}
              ELSE {[S |-> S2, next |-> advanceTime(L.next, durMs),
                     notes |-> L.notes \cup mNotes \cup bNotes, err |-> FALSE,
                     steps |-> L.steps + 1, cut |-> FALSE,
                     trace |-> Append(L.trace,
                                      Pass(S, m, b, start,
                                           advanceTime(L.next, durMs)))]
                    : S2 \in advanceCursors(S)}
  IN mThrows \cup bThrows \cup done

\* the while loop of schedule(): every loop state it can end in; cut marks a
\* loop whose condition still holds after MaxLoop passes
RECURSIVE scheduleLoop(_, _, _)
scheduleLoop(L, bpm, canPlay) ==
  IF L.err \/ ~Less(L.next, now + ScheduleAheadMs) THEN {L}
  ELSE IF L.steps >= MaxLoop THEN {[L EXCEPT !.cut = TRUE]}
  ELSE UNION {scheduleLoop(L2, bpm, canPlay) : L2 \in scheduleStep(L, bpm, canPlay)}

\* ------------------------------------------------------- the UMD build
\* The player of the UMD build (createPlayer, lines 54-333) as a record of
\* the closure variables its sequencer uses.  It has one counter, step, where
\* the player above has melodyPos and bassPos.
NoTwin == [exists |-> FALSE]

\* lines 59-83
umdCreatePlayer(mel, bs, pl, sh, t) ==
  [exists |-> TRUE, melody |-> mel, bass |-> bs, playlist |-> pl,
   shufflePlaylist |-> sh, playlistOrder |-> NoOrder, playlistPos |-> 0,
   currentTuneName |-> NoName, tempo |-> t, isPlaying |-> FALSE, step |-> 0,
   nextNoteTime |-> 0, events |-> <<>>]

\* setTuneByIndex of the UMD build (lines 109-120)
umdSetTuneByIndex(U, idx) ==
  IF Len(U.playlist) = 0 THEN U
  ELSE IF idx + 1 \notin DOMAIN U.playlist THEN U
  ELSE LET t == U.playlist[idx + 1] IN
    [U EXCEPT !.melody = t.melody,
              !.bass = IF t.hasBass THEN t.bass ELSE U.bass,
              !.tempo = setTempoValue(U.tempo, t.tempo),
              !.currentTuneName =
                 IF t.name # "" THEN t.name ELSE "tune-" \o ToString(idx),
              !.step = 0]

\* initPlaylistIfNeeded of the UMD build (lines 95-107): the set of results
umdInitPlaylistIfNeeded(U) ==
  IF Len(U.playlist) = 0 THEN {U}
  ELSE LET ident == [i \in 1..Len(U.playlist) |-> i - 1]
           orders == IF U.playlistOrder # NoOrder THEN {U.playlistOrder}
                     ELSE IF U.shufflePlaylist THEN shuffleArray(ident)
                     ELSE {ident}
       IN {LET U1 == [U EXCEPT !.playlistOrder = o,
                               !.playlistPos =
                                  IF U.playlistOrder = NoOrder THEN 0
                                  ELSE U.playlistPos]
           IN IF Len(U1.melody) = 0
              THEN umdSetTuneByIndex(U1, U1.playlistOrder[U1.playlistPos + 1])
              ELSE U1
           : o \in orders}

\* nextTune of the UMD build (lines 122-133): the set of results
umdNextTune(U) ==
  IF Len(U.playlist) = 0 THEN {U}
  ELSE UNION {
    LET p == U1.playlistPos + 1
        wrapped == p >= Len(U1.playlistOrder)
        orders == IF wrapped /\ U1.shufflePlaylist
                  THEN shuffleArray(U1.playlistOrder)
                  ELSE {U1.playlistOrder}
    IN {LET U2 == [U1 EXCEPT !.playlistPos = IF wrapped THEN 0 ELSE p,
                             !.playlistOrder = o]
        IN umdSetTuneByIndex(U2, U2.playlistOrder[U2.playlistPos + 1])
        : o \in orders}
    : U1 \in umdInitPlaylistIfNeeded(U)}

\* what a listener can tell of one pass: the positions read, where the pass
\* starts, and the tune it belongs to
Event(mi, bi, start, tune) ==
  [melodyPos |-> mi, bassPos |-> bi, start |-> start, tune |-> tune]

\* one pass of the loop of the UMD build's schedule() (lines 251-286) with
\* the tempo bpm read before the loop: the set of results
umdScheduleStep(U, bpm) ==
  {LET mi == IF Len(U1.melody) > 0 THEN U1.step % Len(U1.melody) ELSE 0
       bi == IF Len(U1.bass) > 0 THEN U1.step % Len(U1.bass) ELSE 0
       m == IF Len(U1.melody) > 0 THEN NoteAt(U1.melody, mi) ELSE NoNote
   IN [U1 EXCEPT !.nextNoteTime = Plus(U1.nextNoteTime, DurMs(durBeats(m), bpm)),
                 !.step = U1.step + 1,
                 !.events = Append(U1.events,
                                   Event(mi, bi, U1.nextNoteTime,
                                         U1.currentTuneName))]
   : U1 \in IF Len(U.melody) > 0 /\ U.step > 0 /\ U.step % Len(U.melody) = 0
            THEN umdNextTune(U) ELSE {U}}

\* the while loop of the UMD build's schedule(), followed for n passes
RECURSIVE umdScheduleLoop(_, _, _)
umdScheduleLoop(U, bpm, n) ==
  IF ~Less(U.nextNoteTime, now + ScheduleAheadMs) \/ n = 0 THEN {U}
  ELSE UNION {umdScheduleLoop(U1, bpm, n - 1) : U1 \in umdScheduleStep(U, bpm)}

\* schedule() of the UMD build (lines 244-292) on a context that takes every
\* note; events are those of this run
umdSchedule(U) ==
  IF ~U.isPlaying THEN {[U EXCEPT !.events = <<>>]}
  ELSE umdScheduleLoop([U EXCEPT !.events = <<>>], U.tempo, MaxLoop)

\* start() of the UMD build (lines 311-333) when its context reads clock
umdStart(U, clock) ==
  IF U.isPlaying THEN {U}
  ELSE {[U1 EXCEPT !.isPlaying = TRUE, !.step = 0,
                   !.nextNoteTime = clock + StartLeadMs, !.events = <<>>]
        : U1 \in umdInitPlaylistIfNeeded(U)}

\* ------------------------------------------------- assignments to the state
SetSeq(S) ==
  /\ melody' = S.melody
  /\ bass' = S.bass
  /\ playlist' = S.playlist
  /\ shufflePlaylist' = S.shufflePlaylist
  /\ playlistOrder' = S.playlistOrder
  /\ playlistPos' = S.playlistPos
  /\ currentTuneName' = S.currentTuneName
  /\ tempo' = S.tempo
  /\ currentInstrument' = S.currentInstrument

\* what the last call or callback was, how it ended, and whether the player
\* was playing when it began
Returned(op, ret) == last' = [op |-> op, ret |-> ret, was |-> isPlaying]

\* the same for a call whose argument is of interest
ReturnedFor(op, arg, ret) ==
  last' = [op |-> op, ret |-> ret, was |-> isPlaying, arg |-> arg]

\* setInterval: a handle that is not in use
FreshTimer == CHOOSE id \in 1..(Cardinality(timers) + 1) : id \notin timers

\* contexts constructed so far
Created == {i \in DOMAIN ctxState : ctxState[i] # "none"}

\* --------------------------------------------------------------- ensure()
\* Every way ensure() (lines 939-964) can end: ret is "true", "false" or
\* "threw"; made says whether `new Ctx()` returned a context, st its state.
\* The constructor may throw (the Web Audio API lets it); assigning a
\* non-finite number to an AudioParam's value throws a TypeError, after ctx
\* and both gain nodes have been assigned.
ensureKeeps(r) ==
  [ret |-> r, ctx |-> ctx, masterGain |-> masterGain, musicGain |-> musicGain,
   made |-> FALSE, st |-> "none"]

\* lines 948-963: construct the context and its two gain nodes
ensureCreates ==
  LET id == Cardinality(Created) + 1
      new(r, mg, ug, st) == [ret |-> r, ctx |-> id, masterGain |-> mg,
                             musicGain |-> ug, made |-> TRUE, st |-> st]
  IN IF id > MaxCtx THEN {}
     ELSE {ensureKeeps("threw")}
          \cup {IF volume = NaN THEN new("threw", TRUE, TRUE, st)
                                 ELSE new("true", TRUE, TRUE, st)
                : st \in {"suspended", "running"}}

\* ensure() without `if (ctx) return true`
ensureOutcomesAlwaysCreates ==
  IF ~hasAudio THEN {ensureKeeps("false")} ELSE ensureCreates

\* ensure() without the `if (!Ctx)` test: `new undefined()` throws
ensureOutcomesNoFeatureTest ==
  IF ctx # Null THEN {ensureKeeps("true")}
  ELSE IF ~hasAudio THEN {ensureKeeps("threw")}
  ELSE ensureCreates

ensureOutcomes ==
  IF ctx # Null THEN {ensureKeeps("true")}
  ELSE IF ~hasAudio THEN {ensureKeeps("false")}
  ELSE ensureCreates

ApplyEnsure(E) ==
  /\ ctx' = E.ctx
  /\ masterGain' = E.masterGain
  /\ musicGain' = E.musicGain
  /\ ctxState' = IF E.made THEN [ctxState EXCEPT ![E.ctx] = E.st] ELSE ctxState
  /\ now' = IF E.made THEN 0 ELSE now

\* ctx.state right after ensure() ended as E
StateAfter(E) == IF E.made THEN E.st ELSE ctxState[E.ctx]

\* ------------------------------------------------------------------ stop()
\* stop() that forgets clearInterval
stopLeavesTimer ==
  IF isPlaying
  THEN /\ isPlaying' = FALSE
       /\ timers' = timers
       /\ timerId' = Null
  ELSE UNCHANGED <<isPlaying, timers, timerId>>

\* stop() (lines 1414-1422), also run by setMuted, setEnabled, destroy and
\* the catch of schedule()
stop ==
  IF isPlaying
  THEN /\ isPlaying' = FALSE
       /\ timers' = IF timerId # Null THEN timers \ {timerId} ELSE timers
       /\ timerId' = Null
  ELSE UNCHANGED <<isPlaying, timers, timerId>>

\* ----------------------------------------------------- control operations
Ensure ==
  \E E \in ensureOutcomes :
    /\ ApplyEnsure(E)
    /\ Returned("ensure", E.ret)
    /\ trace' = <<>> /\ UNCHANGED histVars
    /\ UNCHANGED <<seqVars, transportVars, volume, enabled, muted>>
    /\ UNCHANGED <<hasAudio, timers, notes, pending>>

\* unlock() (lines 1372-1387) up to its await: the promise resolves to
\* "true" or "false", is "rejected", or stays "pending" on ctx.resume()
Unlock ==
  \E E \in ensureOutcomes :
    /\ ApplyEnsure(E)
    /\ IF E.ret = "threw" THEN Returned("unlock", "rejected") /\ UNCHANGED pending
       ELSE IF E.ret = "false" THEN Returned("unlock", "false") /\ UNCHANGED pending
       ELSE IF StateAfter(E) = "suspended"
            THEN /\ Len(pending) < MaxPending
                 /\ pending' = Append(pending, [ctx |-> E.ctx, src |-> "unlock"])
                 /\ Returned("unlock", "pending")
            ELSE Returned("unlock", "true") /\ UNCHANGED pending
    /\ trace' = <<>> /\ UNCHANGED histVars
    /\ UNCHANGED <<seqVars, transportVars, volume, enabled, muted>>
    /\ UNCHANGED <<hasAudio, timers, notes>>

\* start() that forgets to rewind the cursors
beginPlaybackKeepsCursors ==
  /\ isPlaying' = TRUE
  /\ UNCHANGED <<melodyPos, bassPos>>
  /\ nextNoteTime' = now' + StartLeadMs
  /\ timerId' = FreshTimer
  /\ timers' = timers \cup {FreshTimer}

\* start() that sets the time cursor to the clock reading, without a lead
beginPlaybackNoLead ==
  /\ isPlaying' = TRUE
  /\ melodyPos' = 0
  /\ bassPos' = 0
  /\ nextNoteTime' = now'
  /\ timerId' = FreshTimer
  /\ timers' = timers \cup {FreshTimer}

\* lines 1406-1410 of start()
beginPlayback ==
  /\ isPlaying' = TRUE
  /\ melodyPos' = 0
  /\ bassPos' = 0
  /\ nextNoteTime' = now' + StartLeadMs
  /\ timerId' = FreshTimer
  /\ timers' = timers \cup {FreshTimer}

\* start() (lines 1389-1412)
Start ==
  IF isPlaying \/ ~enabled \/ muted
  THEN Returned("start", "ok") /\ trace' = <<>> /\ UNCHANGED <<playerVars, envVars, histVars>>
  ELSE \E E \in ensureOutcomes :
    /\ ApplyEnsure(E)
    /\ UNCHANGED <<volume, enabled, muted, hasAudio, notes>>
    /\ IF E.ret # "true"
       THEN /\ Returned("start", IF E.ret = "threw" THEN "threw" ELSE "ok")
            /\ trace' = <<>> /\ UNCHANGED <<seqVars, transportVars, timers, pending, histVars>>
       ELSE /\ IF StateAfter(E) = "suspended"
               THEN /\ Len(pending) < MaxPending
                    /\ pending' = Append(pending, [ctx |-> E.ctx, src |-> "start"])
               ELSE UNCHANGED pending
            /\ \E S \in initPlaylistIfNeeded(SeqState) :
                 SetSeq(S) /\ tunesPlayed' = S.played
            /\ beginPlayback
            /\ stepsSinceStart' = 0
            /\ edited' = FALSE
            /\ trace' = <<>>
            /\ t0' = nextNoteTime'
            /\ UNCHANGED configCalls
            /\ Returned("start", "ok")

Stop ==
  /\ stop
  /\ Returned("stop", "ok")
  /\ trace' = <<>> /\ UNCHANGED histVars
  /\ UNCHANGED <<seqVars, melodyPos, bassPos, nextNoteTime, ctxVars>>
  /\ UNCHANGED <<volume, enabled, muted, hasAudio, ctxState, now, notes, pending>>

\* destroy() that releases the context without stopping playback
DestroyWithoutStop ==
  /\ UNCHANGED <<isPlaying, timers, timerId>>
  /\ ctxState' = IF ctx # Null THEN [ctxState EXCEPT ![ctx] = "closed"] ELSE ctxState
  /\ ctx' = Null
  /\ masterGain' = FALSE
  /\ musicGain' = FALSE
  /\ notes' = {}
  /\ now' = 0
  /\ Returned("destroy", "ok")
  /\ trace' = <<>> /\ UNCHANGED histVars
  /\ UNCHANGED <<seqVars, melodyPos, bassPos, nextNoteTime>>
  /\ UNCHANGED <<volume, enabled, muted, hasAudio, pending>>

\* destroy() (lines 1424-1432); closing the context ends its notes
Destroy ==
  /\ stop
  /\ ctxState' = IF ctx # Null THEN [ctxState EXCEPT ![ctx] = "closed"] ELSE ctxState
  /\ ctx' = Null
  /\ masterGain' = FALSE
  /\ musicGain' = FALSE
  /\ notes' = {}
  /\ now' = 0
  /\ Returned("destroy", "ok")
  /\ trace' = <<>> /\ UNCHANGED histVars
  /\ UNCHANGED <<seqVars, melodyPos, bassPos, nextNoteTime>>
  /\ UNCHANGED <<volume, enabled, muted, hasAudio, pending>>

\* setMuted that only silences the master gain
SetMutedGainOnly(m) ==
  /\ muted' = m
  /\ Returned("setMuted", "ok")
  /\ trace' = <<>> /\ UNCHANGED histVars
  /\ UNCHANGED <<seqVars, transportVars, ctxVars>>
  /\ UNCHANGED <<volume, enabled, envVars>>

\* setMuted(m) (lines 973-979); setValueAtTime(0 or 1, currentTime) is valid
SetMuted(m) ==
  /\ muted' = m
  /\ IF m THEN stop ELSE UNCHANGED <<isPlaying, timers, timerId>>
  /\ Returned("setMuted", "ok")
  /\ trace' = <<>> /\ UNCHANGED histVars
  /\ UNCHANGED <<seqVars, melodyPos, bassPos, nextNoteTime, ctxVars>>
  /\ UNCHANGED <<volume, enabled, hasAudio, ctxState, now, notes, pending>>

\* setEnabled that resumes playback when the player is enabled again
SetEnabledResumes(e) ==
  /\ enabled' = e
  /\ IF ~e THEN stop
     ELSE IF ~isPlaying /\ ctx # Null /\ ~muted
          THEN /\ isPlaying' = TRUE
               /\ timerId' = FreshTimer
               /\ timers' = timers \cup {FreshTimer}
          ELSE UNCHANGED <<isPlaying, timers, timerId>>
  /\ Returned("setEnabled", "ok")
  /\ trace' = <<>> /\ UNCHANGED histVars
  /\ UNCHANGED <<seqVars, melodyPos, bassPos, nextNoteTime, ctxVars>>
  /\ UNCHANGED <<volume, muted, hasAudio, ctxState, now, notes, pending>>

\* setEnabled(e) (lines 981-984)
SetEnabled(e) ==
  /\ enabled' = e
  /\ IF ~e THEN stop ELSE UNCHANGED <<isPlaying, timers, timerId>>
  /\ Returned("setEnabled", "ok")
  /\ trace' = <<>> /\ UNCHANGED histVars
  /\ UNCHANGED <<seqVars, melodyPos, bassPos, nextNoteTime, ctxVars>>
  /\ UNCHANGED <<volume, muted, hasAudio, ctxState, now, notes, pending>>

\* setVolume(v) (lines 966-971); setValueAtTime(NaN, t) throws a TypeError
SetVolume(v) ==
  /\ volume' = clamp01(IF IsNumber(v) THEN v ELSE volume)
  /\ Returned("setVolume",
              IF musicGain /\ ctx # Null /\ volume' = NaN THEN "threw" ELSE "ok")
  /\ UNCHANGED <<seqVars, transportVars, ctxVars, enabled, muted, envVars>>
  /\ trace' = <<>> /\ UNCHANGED histVars

\* one more call that configures the sequencer
Configures ==
  /\ configCalls < MaxConfig
  /\ configCalls' = configCalls + 1

\* setTempo(bpm) (lines 986-990)
SetTempo(bpm) ==
  /\ Configures
  /\ tempo' = setTempoValue(tempo, bpm)
  /\ ReturnedFor("setTempo", bpm, "ok")
  /\ UNCHANGED <<melody, bass, playlist, shufflePlaylist, playlistOrder,
                 playlistPos, currentTuneName, currentInstrument>>
  /\ UNCHANGED <<transportVars, ctxVars, volume, enabled, muted, envVars>>
  /\ trace' = <<>> /\ UNCHANGED <<stepsSinceStart, edited, tunesPlayed, t0>>

\* setSequence(seq) as a call of the player
SetSequence(seq) ==
  /\ Configures
  /\ SetSeq(setSequence(SeqState, seq))
  /\ ReturnedFor("setSequence", seq, "ok")
  /\ edited' = TRUE
  /\ UNCHANGED <<transportVars, ctxVars, volume, enabled, muted, envVars>>
  /\ trace' = <<>> /\ UNCHANGED <<stepsSinceStart, tunesPlayed, t0>>

\* setPlaylist(pl, shuffle) as a call of the player
SetPlaylist(pl, shuffle) ==
  \E S \in setPlaylist(SeqState, pl, shuffle) :
    /\ Configures
    /\ SetSeq(S)
    /\ melodyPos' = S.melodyPos
    /\ bassPos' = S.bassPos
    /\ tunesPlayed' = S.played
    /\ ReturnedFor("setPlaylist", pl, "ok")
    /\ edited' = TRUE
    /\ UNCHANGED <<isPlaying, timerId, nextNoteTime>>
    /\ UNCHANGED <<ctxVars, volume, enabled, muted, envVars, stepsSinceStart>>
    /\ trace' = <<>> /\ UNCHANGED t0

\* -------------------------------------------------------------- callbacks
\* schedule() that only checks for a context
scheduleSkipsCtxOnly == ctx = Null

\* line 1317: if (!ctx || !isPlaying) return
scheduleSkips == ctx = Null \/ ~isPlaying

\* a catch that only logs
scheduleCatchLogsOnly == UNCHANGED <<isPlaying, timers, timerId>>

\* lines 1366-1369: the catch of schedule() logs and stops
scheduleCatch == stop

\* schedule() (lines 1316-1370), run as `op`
schedule(op) ==
  IF scheduleSkips
  THEN /\ Returned(op, "ok")
       /\ trace' = <<>>
       /\ UNCHANGED <<playerVars, envVars>>
       /\ UNCHANGED <<stepsSinceStart, edited, tunesPlayed, configCalls, t0>>
  ELSE \E L \in scheduleLoop([S |-> SeqState, next |-> nextNoteTime,
                              notes |-> notes, err |-> FALSE, steps |-> 0,
                              cut |-> FALSE, trace |-> <<>>],
                             tempo, musicGain) :
    /\ SetSeq(L.S)
    /\ melodyPos' = L.S.melodyPos
    /\ bassPos' = L.S.bassPos
    /\ nextNoteTime' = L.next
    /\ notes' = L.notes
    /\ IF L.err THEN scheduleCatch ELSE UNCHANGED <<isPlaying, timers, timerId>>
    /\ Returned(op, IF L.err THEN "caught" ELSE IF L.cut THEN "hang" ELSE "ok")
    /\ stepsSinceStart' = stepsSinceStart + L.steps
    /\ tunesPlayed' = L.S.played
    /\ Len(tunesPlayed') <= MaxPlays
    /\ trace' = L.trace
    /\ UNCHANGED <<edited, configCalls, t0>>
    /\ UNCHANGED <<ctxVars, volume, enabled, muted>>
    /\ UNCHANGED <<hasAudio, ctxState, now, pending>>

\* the interval timer registered by start() fires
Tick == timers # {} /\ schedule("tick")

\* schedule() run although its timer has been cleared
LateTick == timers = {} /\ schedule("lateTick")

\* the timer periods between two looks at the clock
ClockStep == 4 * LookaheadMs

\* the clock of the player's context advances; notes
\* whose oscillators have stopped are gone
Advance ==
  /\ ctx # Null
  /\ ctxState[ctx] = "running"
  /\ now + ClockStep <= MaxTime
  /\ now' = now + ClockStep
  /\ notes' = {n \in notes : n.stop > now'}
  /\ Returned("clock", "ok")
  /\ trace' = <<>> /\ UNCHANGED histVars
  /\ UNCHANGED <<playerVars, hasAudio, ctxState, timers, pending>>

RemoveAt(q, i) == [k \in 1..(Len(q) - 1) |-> IF k < i THEN q[k] ELSE q[k + 1]]

\* ctx.resume() fulfils: the context runs and unlock() resolves to true
ResumeOk ==
  \E i \in DOMAIN pending :
    /\ ctxState[pending[i].ctx] # "closed"
    /\ ctxState' = [ctxState EXCEPT ![pending[i].ctx] = "running"]
    /\ pending' = RemoveAt(pending, i)
    /\ Returned(pending[i].src \o "ResumeOk", "true")
    /\ trace' = <<>> /\ UNCHANGED histVars
    /\ UNCHANGED <<playerVars, hasAudio, now, timers, notes>>

\* a failed resume that also stops playback
ResumeFailStops ==
  \E i \in DOMAIN pending :
    /\ pending' = RemoveAt(pending, i)
    /\ stop
    /\ Returned(pending[i].src \o "ResumeFail", "false")
    /\ trace' = <<>> /\ UNCHANGED histVars
    /\ UNCHANGED <<seqVars, melodyPos, bassPos, nextNoteTime, ctxVars>>
    /\ UNCHANGED <<volume, enabled, muted, hasAudio, ctxState, now, notes>>

\* unlock() without its try/catch: the rejection of ctx.resume() goes on
\* to the promise of unlock()
ResumeFailRejects ==
  \E i \in DOMAIN pending :
    /\ pending' = RemoveAt(pending, i)
    /\ Returned(pending[i].src \o "ResumeFail", "rejected")
    /\ trace' = <<>> /\ UNCHANGED histVars
    /\ UNCHANGED <<playerVars, hasAudio, ctxState, now, timers, notes>>

\* ctx.resume() rejects: unlock() logs and resolves to false
ResumeFail ==
  \E i \in DOMAIN pending :
    /\ pending' = RemoveAt(pending, i)
    /\ Returned(pending[i].src \o "ResumeFail", "false")
    /\ trace' = <<>> /\ UNCHANGED histVars
    /\ UNCHANGED <<playerVars, hasAudio, ctxState, now, timers, notes>>

\* ------------------------------------------------------------ construction
MelodyA == <<Note(72, 2), Note(NoMidi, 2)>>
BassA == <<Note(52, 4)>>
TuneX == Tune("X", <<Note(60, 1)>>, TRUE, <<Note(48, 1), Note(50, 1)>>, 100, "bell")
TuneY == Tune("", <<Note(64, 2)>>, FALSE, <<>>, NotNumber, "")

\* createPlayer(options) (lines 857-885)
createPlayer(o) ==
  /\ melody = o.melody
  /\ bass = o.bass
  /\ playlist = o.playlist
  /\ shufflePlaylist = o.shufflePlaylist
  /\ playlistOrder = NoOrder
  /\ playlistPos = 0
  /\ currentTuneName = NoName
  /\ tempo = IF IsNumber(o.tempo) THEN o.tempo ELSE DefaultTempo
  /\ volume = IF IsNumber(o.volume) THEN clamp01(o.volume) ELSE DefaultVolume
  /\ enabled = TRUE
  /\ muted = FALSE
  /\ isPlaying = FALSE
  /\ timerId = Null
  /\ melodyPos = 0
  /\ bassPos = 0
  /\ nextNoteTime = 0
  /\ ctx = Null
  /\ masterGain = FALSE
  /\ musicGain = FALSE
  /\ currentInstrument = "flute"

Options(mel, bs, pl, sh, t, v) ==
  [melody |-> mel, bass |-> bs, playlist |-> pl, shufflePlaylist |-> sh,
   tempo |-> t, volume |-> v]

EnvInit ==
  /\ hasAudio \in BOOLEAN
  /\ ctxState = [i \in 1..MaxCtx |-> "none"]
  /\ now = 0
  /\ timers = {}
  /\ notes = {}
  /\ pending = <<>>
  /\ last = [op |-> "createPlayer", ret |-> "ok", was |-> FALSE]
  /\ stepsSinceStart = 0
  /\ edited = FALSE
  /\ tunesPlayed = <<>>
  /\ configCalls = 0
  /\ trace = <<>>
  /\ t0 = 0
  /\ umd = NoTwin
  /\ notices = {}

\* the players the control-surface claims are checked on
ControlOptions ==
  {Options(MelodyA, BassA, NoPlaylist, FALSE, NotNumber, NotNumber),
   Options(<<>>, <<>>, NoPlaylist, FALSE, NotNumber, NotNumber)}

Init == EnvInit /\ \E o \in ControlOptions : createPlayer(o)

VolumeArgs == {NaN, NotNumber}

\* the player is run on its own, and the statechange events of its contexts
\* are not followed
Alone == UNCHANGED <<umd, notices>>

Next ==
  \/ Ensure /\ Alone
  \/ Unlock /\ Alone
  \/ Start /\ Alone
  \/ Stop /\ Alone
  \/ Destroy /\ Alone
  \/ \E m \in BOOLEAN : SetMuted(m) /\ Alone
  \/ \E e \in BOOLEAN : SetEnabled(e) /\ Alone
  \/ \E v \in VolumeArgs : SetVolume(v) /\ Alone
  \/ Tick /\ Alone
  \/ LateTick /\ Alone
  \/ Advance /\ Alone
  \/ ResumeOk /\ Alone
  \/ ResumeFail /\ Alone

Spec == Init /\ [][Next]_vars

\* ------------------------------------------------- the sequencing players
MelodyB == <<Note(67, 1)>>
BassB == <<Note(40, 1), Note(43, 1), Note(45, 1)>>
MelodyStall == <<Note(60, 0)>>
PlaylistXY == <<TuneX, TuneY>>

\* players with a melody and a bass line, with nothing, with nothing and a
\* tempo of NaN, and with a shuffled playlist next to an explicit melody
SeqOptions ==
  {Options(MelodyA, BassB, NoPlaylist, FALSE, NotNumber, NotNumber),
   Options(<<>>, <<>>, NoPlaylist, FALSE, NotNumber, NotNumber),
   Options(<<>>, <<>>, NoPlaylist, FALSE, NaN, NotNumber),
   Options(MelodyA, BassA, PlaylistXY, TRUE, NotNumber, NotNumber)}

SeqInit == EnvInit /\ hasAudio /\ \E o \in SeqOptions : createPlayer(o)

TempoArgs ==
  {0 - 60, 0, TempoMin, TempoMin + 1, TempoMax - 1, TempoMax, 2 * TempoMax,
   NaN, NotNumber}

SequenceArgs ==
  {NoSequence,
   Sequence(TRUE, MelodyB, FALSE, <<>>, NotNumber),
   Sequence(TRUE, MelodyStall, FALSE, <<>>, TempoMax - 1)}

PlaylistArgs == {<<PlaylistXY, FALSE>>, <<PlaylistXY, TRUE>>, <<NoPlaylist, FALSE>>}

\* a scheduling loop that does not end keeps the only thread: nothing else
\* runs from then on
Responsive == last.ret # "hang"

\* Playback ends here through the catch of schedule(), which runs stop().
SeqNext ==
  \/ Responsive /\ Start /\ Alone
  \/ Responsive /\ Tick /\ Alone
  \/ Responsive /\ Advance /\ Alone
  \/ \E bpm \in TempoArgs : Responsive /\ SetTempo(bpm) /\ Alone
  \/ \E seq \in SequenceArgs : Responsive /\ SetSequence(seq) /\ Alone
  \/ \E a \in PlaylistArgs : Responsive /\ SetPlaylist(a[1], a[2]) /\ Alone

SeqSpec == SeqInit /\ [][SeqNext]_vars

\* --------------------------------------------- the players timed by the beat
MelodyCE == <<Note(60, 4), Note(64, 4)>>
TuneZ == Tune("Z", <<Note(62, 1)>>, FALSE, <<>>, 300, "piano")
PlaylistZX == <<TuneZ, TuneX>>

\* the player of the spec's scenario (C4 and E4 of one beat each, no bass,
\* 60 BPM), a player with rests and a bass line of another length, and a
\* player with a playlist whose tunes differ in tempo
BeatOptions ==
  {Options(MelodyCE, <<>>, NoPlaylist, FALSE, 60, NotNumber),
   Options(MelodyA, BassB, NoPlaylist, FALSE, NotNumber, NotNumber),
   Options(<<>>, <<>>, PlaylistZX, FALSE, NotNumber, NotNumber)}

BeatInit == EnvInit /\ hasAudio /\ \E o \in BeatOptions : createPlayer(o)

\* the times between two looks at the clock: a few timer periods, or the
\* half second of a throttled timer
Waits == {ClockStep, 5 * ClockStep}

\* the clock of the player's context advances by d
Elapse(d) ==
  /\ ctx # Null
  /\ ctxState[ctx] = "running"
  /\ now + d <= MaxClock
  /\ now' = now + d
  /\ notes' = {n \in notes : n.stop > now'}
  /\ Returned("clock", "ok")
  /\ trace' = <<>> /\ UNCHANGED histVars
  /\ UNCHANGED <<playerVars, hasAudio, ctxState, timers, pending>>

\* the audio engine takes every note here, and a run of schedule() is
\* followed when it ends within MaxLoop passes
Sounds == last'.ret = "ok"

BeatNext ==
  \/ Ensure /\ Alone
  \/ Start /\ Alone
  \/ Tick /\ Sounds /\ Alone
  \/ \E d \in Waits : Elapse(d) /\ Alone

BeatSpec == BeatInit /\ [][BeatNext]_vars

\* ------------------------------------------- the players of single pitches
\* a player for every pitch index: the pitch as its melody, the pitch an
\* octave above as its bass line
PitchOptions ==
  {Options(<<Note(p, 4)>>, <<Note(p + 12, 4)>>, NoPlaylist, FALSE,
           NotNumber, NotNumber) : p \in 0..(MaxMidi - 12)}

PitchInit == EnvInit /\ hasAudio /\ \E o \in PitchOptions : createPlayer(o)

PitchNext ==
  \/ Start /\ Alone
  \/ Tick /\ Sounds /\ Alone

PitchSpec == PitchInit /\ [][PitchNext]_vars

\* ------------------------------------------------ the two builds side by side
\* players of both builds get the same options: a melody over a bass line of
\* another length, a playlist alone, and a playlist next to a melody
PairOptions ==
  {Options(MelodyA, BassB, NoPlaylist, FALSE, NotNumber, NotNumber),
   Options(<<>>, <<>>, PlaylistXY, FALSE, NotNumber, NotNumber),
   Options(MelodyA, BassA, PlaylistXY, FALSE, NotNumber, NotNumber)}

PairInit == EnvInit /\ hasAudio /\ \E o \in PairOptions : createPlayer(o)

\* the UMD build's createPlayer called with the options the player was made of
PairCreate ==
  /\ umd = NoTwin
  /\ last.op = "createPlayer"
  /\ umd' = umdCreatePlayer(melody, bass, playlist, shufflePlaylist, tempo)
  /\ Returned("createTwin", "ok")
  /\ trace' = <<>> /\ UNCHANGED histVars
  /\ UNCHANGED <<playerVars, envVars, notices>>

\* start() on both players, the contexts of both reading the same clock
PairStart ==
  /\ umd # NoTwin
  /\ Start
  /\ umd' \in IF last'.ret = "ok" THEN umdStart(umd, now') ELSE {umd}
  /\ UNCHANGED notices

\* the timers of both players fire at the same clock reading
PairTick ==
  /\ umd # NoTwin
  /\ Tick /\ Sounds
  /\ umd' \in umdSchedule(umd)
  /\ umd'.isPlaying => ~Less(umd'.nextNoteTime, now + ScheduleAheadMs)
  /\ UNCHANGED notices

PairNext ==
  \/ PairCreate
  \/ PairStart
  \/ PairTick
  \/ \E d \in Waits : Elapse(d) /\ Alone

PairSpec == PairInit /\ [][PairNext]_vars

\* ------------------------------------------- the statechange notifications
\* A context fires a statechange event whenever its state changes (resume
\* fulfilling, close()); the event is delivered later, as a task of its own.
Notified ==
  notices' = notices \cup {c \in DOMAIN ctxState :
                             ctxState[c] # "none" /\ ctxState'[c] # ctxState[c]}

\* the handler of lines 958-960 runs for context c: it reads ctx.state of the
\* player's variable ctx, which throws a TypeError when ctx is null
StateChange ==
  \E c \in notices :
    /\ notices' = notices \ {c}
    /\ ReturnedFor("statechange", c, IF ctx = Null THEN "threw" ELSE "ok")
    /\ trace' = <<>> /\ UNCHANGED histVars
    /\ UNCHANGED <<playerVars, envVars, umd>>

NoticeInit == EnvInit /\ hasAudio /\ \E o \in ControlOptions : createPlayer(o)

\* the calls that create, resume and release contexts, and the events
NoticeNext ==
  \/ Ensure /\ Notified /\ UNCHANGED umd
  \/ Unlock /\ Notified /\ UNCHANGED umd
  \/ Start /\ Notified /\ UNCHANGED umd
  \/ Stop /\ Notified /\ UNCHANGED umd
  \/ Destroy /\ Notified /\ UNCHANGED umd
  \/ \E m \in BOOLEAN : SetMuted(m) /\ Notified /\ UNCHANGED umd
  \/ ResumeOk /\ Notified /\ UNCHANGED umd
  \/ ResumeFail /\ Notified /\ UNCHANGED umd
  \/ StateChange

NoticeSpec == NoticeInit /\ [][NoticeNext]_vars

\* ------------------------------------------------- ticks that jitter
\* The interval timer fires late by varying amounts: the first run of the
\* timer comes no later than StartLeadMs after start(), every later one no
\* later than ScheduleAheadMs after the one before it.
TickGaps == {LookaheadMs, StartLeadMs, 3 * LookaheadMs, ScheduleAheadMs}

JitterInit == EnvInit /\ hasAudio /\ \E o \in BeatOptions : createPlayer(o)

\* the clock advances by d; while the player plays, only between two runs
\* of the timer, or by no more than the lead of start() before the first run
JitterElapse(d) ==
  /\ Elapse(d)
  /\ isPlaying =>
       \/ last.op = "tick"
       \/ last.op = "start" /\ ~last.was /\ d <= StartLeadMs

JitterNext ==
  \/ Start /\ Alone
  \/ Tick /\ Sounds /\ Alone
  \/ \E d \in TickGaps : JitterElapse(d) /\ Alone

JitterSpec == JitterInit /\ [][JitterNext]_vars

\* ------------------------------------------- playback without an end
\* Playlists played for as long as the clock runs.  The clock has no upper
\* end here: every kept time is measured from the current clock reading, so
\* that a wait of d lowers nextNoteTime and the times of the sounding notes
\* by d where the clock reading would rise by d (the player only compares
\* and adds times).  The history of a session is not kept.
TuneQ == Tune("Q", <<>>, FALSE, <<>>, NotNumber, "")
PlaylistXQY == <<TuneX, TuneQ, TuneY>>

LiveOptions ==
  {Options(<<>>, <<>>, PlaylistXY, FALSE, NotNumber, NotNumber),
   Options(<<>>, <<>>, PlaylistXY, TRUE, NotNumber, NotNumber),
   Options(<<>>, <<>>, PlaylistXQY, FALSE, NotNumber, NotNumber)}

LiveInit == EnvInit /\ hasAudio /\ \E o \in LiveOptions : createPlayer(o)

\* the interval timer fires and schedule() (lines 1316-1370) runs to its end
\* with every note taken by the audio engine
LiveTick ==
  /\ timers # {}
  /\ ~scheduleSkips
  /\ \E L \in scheduleLoop([S |-> SeqState, next |-> nextNoteTime,
                            notes |-> notes, err |-> FALSE, steps |-> 0,
                            cut |-> FALSE, trace |-> <<>>],
                           tempo, musicGain) :
       /\ ~L.err /\ ~L.cut
       /\ SetSeq(L.S)
       /\ melodyPos' = L.S.melodyPos
       /\ bassPos' = L.S.bassPos
       /\ nextNoteTime' = L.next
       /\ notes' = L.notes
       /\ trace' = L.trace
  /\ Returned("tick", "ok")
  /\ UNCHANGED <<isPlaying, timers, timerId, histVars>>
  /\ UNCHANGED <<ctxVars, volume, enabled, muted>>
  /\ UNCHANGED <<hasAudio, ctxState, now, pending>>

\* a note d later, seen from the clock reading d later
Later(n, d) == [n EXCEPT !.start = n.start - d, !.stop = n.stop - d]

\* the clock of the player's context advances by d between two runs of the
\* timer
LiveElapse(d) ==
  /\ ctx # Null
  /\ ctxState[ctx] = "running"
  /\ last.op = "tick"
  /\ nextNoteTime' = Plus(nextNoteTime, 0 - d)
  /\ notes' = {Later(n, d) : n \in {m \in notes : m.stop - d > now}}
  /\ Returned("clock", "ok")
  /\ trace' = <<>> /\ UNCHANGED histVars
  /\ UNCHANGED <<seqVars, isPlaying, timerId, melodyPos, bassPos, ctxVars>>
  /\ UNCHANGED <<volume, enabled, muted>>
  /\ UNCHANGED <<hasAudio, ctxState, now, timers, pending>>

\* start() of a session whose history is not kept
LiveStart ==
  /\ ~isPlaying
  /\ \E E \in ensureOutcomes :
       /\ E.ret = "true" /\ StateAfter(E) = "running"
       /\ ApplyEnsure(E)
  /\ \E S \in initPlaylistIfNeeded(SeqState) : SetSeq(S)
  /\ beginPlayback
  /\ Returned("start", "ok")
  /\ trace' = <<>> /\ UNCHANGED histVars
  /\ UNCHANGED <<volume, enabled, muted, hasAudio, notes, pending>>

LiveNext ==
  \/ LiveStart /\ Alone
  \/ LiveTick /\ Alone
  \/ \E d \in Waits : LiveElapse(d) /\ Alone

\* the timer keeps firing and the clock keeps running
LiveSpec ==
  /\ LiveInit /\ [][LiveNext]_vars
  /\ WF_vars(LiveTick /\ Alone)
  /\ WF_vars(\E d \in Waits : LiveElapse(d) /\ Alone)

\* ================================================================ claims
Live == {i \in DOMAIN ctxState : ctxState[i] \in {"suspended", "running"}}
Destroyed == \E i \in DOMAIN ctxState : ctxState[i] = "closed"
EngineOps == {"tick", "lateTick", "clock", "unlockResumeOk", "unlockResumeFail",
              "startResumeOk", "startResumeFail"}

\* C1: start() changes no player state when the player is playing, disabled
\* or muted; otherwise, when ensure() gives a context, it returns with
\* isPlaying, both cursors 0, nextNoteTime = currentTime + 50 ms and exactly
\* one interval timer registered; so a start() right after a stop() of an
\* enabled, unmuted player with a context leaves both cursors at 0.
C1_StartContract ==
  [][last'.op = "start" =>
       /\ (isPlaying \/ ~enabled \/ muted) => UNCHANGED <<playerVars, envVars>>
       /\ (~(isPlaying \/ ~enabled \/ muted) /\ last'.ret = "ok" /\ ctx' # Null) =>
            /\ isPlaying'
            /\ melodyPos' = 0
            /\ bassPos' = 0
            /\ nextNoteTime' = now' + StartLeadMs
            /\ timerId' # Null
            /\ timers' = {timerId'}
       /\ (last.op = "stop" /\ enabled /\ ~muted /\ ctx # Null) =>
            (isPlaying' /\ melodyPos' = 0 /\ bassPos' = 0)]_vars

\* a start() that began playback again while notes of the session before
\* it were still sounding
C1_Witness ==
  /\ last = [op |-> "start", ret |-> "ok", was |-> FALSE]
  /\ isPlaying /\ melodyPos = 0 /\ bassPos = 0
  /\ timers = {timerId}
  /\ now > 0 /\ nextNoteTime = now + StartLeadMs
  /\ notes # {}

\* C2: from a playing state setMuted(true) and setEnabled(false) return with
\* isPlaying false and the interval timer cancelled, and a start() while the
\* player is muted or disabled leaves it not playing with no timer.
C2_MuteDisableStop ==
  [][/\ (isPlaying /\ ((last'.op = "setMuted" /\ muted')
                       \/ (last'.op = "setEnabled" /\ ~enabled'))) =>
          (~isPlaying' /\ timerId' = Null /\ timers' = {})
     /\ (last'.op = "start" /\ (muted \/ ~enabled)) =>
          (~isPlaying' /\ timerId' = Null /\ timers' = {})]_vars

C2_Witness ==
  /\ last = [op |-> "setMuted", ret |-> "ok", was |-> TRUE]
  /\ muted /\ ~isPlaying /\ timers = {} /\ melodyPos > 0

\* C3: setMuted(false) and setEnabled(true) on a player that is not playing
\* leave it not playing, with no timer and with cursors and nextNoteTime as
\* they were; only start() turns isPlaying from false to true.
C3_NoAutoResume ==
  [][/\ (~isPlaying /\ ((last'.op = "setMuted" /\ ~muted')
                        \/ (last'.op = "setEnabled" /\ enabled'))) =>
          /\ ~isPlaying' /\ timerId' = Null /\ timers' = {}
          /\ UNCHANGED <<melodyPos, bassPos, nextNoteTime>>
     /\ (~isPlaying /\ isPlaying') => last'.op = "start"]_vars

C3_Witness ==
  /\ last = [op |-> "setEnabled", ret |-> "ok", was |-> FALSE]
  /\ enabled /\ ~muted /\ ctx # Null /\ ~isPlaying /\ melodyPos > 0

\* C4: while the player is not playing no step, a timer callback included,
\* submits a note; stop() on a stopped player changes nothing; stop() leaves
\* the submitted notes as they are and leaves no timer registered.
C4_StopCooperative ==
  [][/\ ~isPlaying => notes' \subseteq notes
     /\ (last'.op = "stop" /\ ~isPlaying) => UNCHANGED <<playerVars, envVars>>
     /\ last'.op = "stop" =>
          (notes' = notes /\ ~isPlaying' /\ timerId' = Null /\ timers' = {})]_vars

\* the timer callback ran after stop() while notes were still sounding
C4_Witness ==
  /\ last.op = "lateTick" /\ ~isPlaying /\ ctx # Null /\ enabled /\ ~muted
  /\ notes # {} /\ nextNoteTime < now + ScheduleAheadMs

\* C5: once destroy() has closed the context, the player never plays again
\* and never holds an audio context again.
C5_DestroyIsFinal == Destroyed => (~isPlaying /\ ctx = Null)

\* C6: ensure(), unlock() and start() never replace a context the player
\* holds, so at most one context is live; unlock() on a suspended context
\* awaits a resume; unlock() on a context that is not suspended resolves to
\* true and changes nothing.
C6_UnlockIdempotent ==
  [][/\ Cardinality(Live') <= 1
     /\ (last'.op \in {"ensure", "unlock", "start"} /\ ctx # Null) =>
          (ctx' = ctx /\ Created' = Created)
     /\ (last'.op = "unlock" /\ ctx # Null /\ ctxState[ctx] = "suspended") =>
          (last'.ret = "pending" /\ Len(pending') = Len(pending) + 1)
     /\ (last'.op = "unlock" /\ ctx # Null /\ ctxState[ctx] # "suspended") =>
          (last'.ret = "true" /\ UNCHANGED <<playerVars, envVars>>)]_vars

\* a second unlock() on the context the first one created
C6_Witness ==
  /\ last.op = "unlock" /\ last.ret = "pending"
  /\ Len(pending) = MaxPending
  /\ Created = {ctx} /\ isPlaying

\* C7: without an AudioContext constructor unlock() resolves to false, no
\* call throws, and the player never plays, registers a timer, submits a
\* note or holds a context.
C7_NoAudio ==
  ~hasAudio =>
    /\ ~isPlaying /\ timerId = Null /\ timers = {} /\ notes = {} /\ ctx = Null
    /\ last.ret \notin {"threw", "rejected"}
    /\ last.op = "unlock" => last.ret = "false"

C7_Witness == ~hasAudio /\ last.op = "unlock" /\ last.ret = "false"

\* C8: when ctx.resume() rejects, unlock() resolves to false and changes no
\* player field; the call of unlock() changes no player field either when
\* the player holds its context (a first call sets ctx and the two gain
\* nodes and nothing else), and while that context is suspended it attempts
\* the resume again; a resume that fulfils resolves unlock() to true.
C8_ResumeFailure ==
  [][/\ last'.op \in {"unlockResumeFail", "startResumeFail"} =>
          (last'.ret = "false" /\ UNCHANGED playerVars)
     /\ last'.op = "unlock" =>
          IF ctx # Null THEN UNCHANGED playerVars
          ELSE UNCHANGED <<seqVars, transportVars, volume, enabled, muted>>
     /\ (last.op = "unlockResumeFail" /\ last'.op = "unlock" /\ ctx # Null
         /\ ctxState[ctx] = "suspended") =>
          (last'.ret = "pending" /\ pending' # <<>>)
     /\ last'.op = "unlockResumeOk" =>
          (last'.ret = "true" /\ UNCHANGED playerVars)]_vars

\* a resume failed while the player was playing
C8_Witness ==
  /\ last = [op |-> "unlockResumeFail", ret |-> "false", was |-> TRUE]
  /\ isPlaying /\ ctx # Null /\ ctxState[ctx] = "suspended"

\* C9: a note emission that throws in a tick is caught and stops playback;
\* afterwards nothing but a host call submits a note or starts playback; the
\* next start() that gets through begins with both cursors at 0 and
\* nextNoteTime = currentTime + 50 ms.
C9_ScheduleError ==
  [][/\ last'.op \in {"tick", "lateTick"} => last'.ret \in {"ok", "caught"}
     /\ last'.ret = "caught" => (~isPlaying' /\ timerId' = Null /\ timers' = {})
     /\ (~isPlaying /\ last'.op \in EngineOps) =>
          (~isPlaying' /\ notes' \subseteq notes /\ timers' = {})
     /\ (last.ret = "caught" /\ last'.op = "start" /\ enabled /\ ~muted) =>
          /\ isPlaying' /\ melodyPos' = 0 /\ bassPos' = 0
          /\ nextNoteTime' = now' + StartLeadMs]_vars

\* an emission threw on the second step of a session: notes of the first
\* step are out and the melody cursor stands at 1
C9_Witness ==
  /\ last = [op |-> "tick", ret |-> "caught", was |-> TRUE]
  /\ ~isPlaying /\ timers = {} /\ melodyPos = 1 /\ notes # {}

\* C10: no call of the control surface ends with an exception thrown to the
\* host or with a rejected promise.
C10_NoEscape == last.ret \notin {"threw", "rejected"}

\* ---------------------------------------------------- sequencing claims
\* C11: setTempo(t) makes t the tempo for every number t with 20 < t < 400;
\* for every other argument (20, 400, numbers outside the range, NaN,
\* non-numbers) it leaves the tempo as it was; either way it changes nothing
\* else of the player or its environment and does not throw.
C11_SetTempo ==
  [][last'.op = "setTempo" =>
       LET t == last'.arg
           inRange == t # NotNumber /\ t # NaN /\ t > TempoMin /\ t < TempoMax
       IN /\ tempo' = IF inRange THEN t ELSE tempo
          /\ last'.ret = "ok"
          /\ UNCHANGED <<melody, bass, playlist, shufflePlaylist, playlistOrder,
                         playlistPos, currentTuneName, currentInstrument>>
          /\ UNCHANGED <<transportVars, ctxVars, volume, enabled, muted, envVars>>]_vars

\* setTempo(399) on a playing player
C11_Witness ==
  /\ last.op = "setTempo" /\ last.arg = TempoMax - 1 /\ last.was
  /\ tempo = TempoMax - 1 /\ isPlaying

\* C12: on a player without a playlist whose sequence has not been replaced
\* since start() rewound the cursors, with a melody of M > 0 and a bass line
\* of B > 0 notes, after N passes of the scheduling loop the melody cursor is
\* N mod M and the bass cursor is N mod B, however the passes fall into ticks.
C12_CursorsModulo ==
  (playlist = NoPlaylist /\ ~edited /\ Len(melody) > 0 /\ Len(bass) > 0) =>
    /\ melodyPos = stepsSinceStart % Len(melody)
    /\ bassPos = stepsSinceStart % Len(bass)

\* four steps of a two-note melody over a three-note bass line: the melody
\* has wrapped twice, the bass line once
C12_Witness ==
  /\ isPlaying /\ playlist = NoPlaylist /\ ~edited
  /\ melody = MelodyA /\ bass = BassB /\ stepsSinceStart = 4
  /\ melodyPos = 0 /\ bassPos = 1

\* C13: in every reachable state the melody cursor is an index of the melody
\* when the melody is not empty (0 <= melodyPos < melody.length), and the
\* bass cursor is an index of the bass line when that is not empty.
C13_CursorsValid ==
  /\ Len(melody) > 0 => (0 <= melodyPos /\ melodyPos < Len(melody))
  /\ Len(bass) > 0 => (0 <= bassPos /\ bassPos < Len(bass))

\* C14: a tune change does not touch the bass cursor: over a tick that
\* completes one pass in which the playlist moves on to another tune, the
\* bass cursor moves from its previous position to that position plus one,
\* modulo the length of the bass line.
C14_BassIndependent ==
  [][(/\ last'.op = "tick"
      /\ stepsSinceStart' = stepsSinceStart + 1
      /\ Len(tunesPlayed') = Len(tunesPlayed) + 1
      /\ Len(bass') > 0)
     => bassPos' = (bassPos + 1) % Len(bass')]_vars

Min(a, b) == IF a <= b THEN a ELSE b

\* C15: with a shuffled playlist of K tunes, the first K tunes selected are
\* K different indices, and the order is not redrawn before the (K+1)-th
\* tune is selected.
C15_ShufflePermutation ==
  [][(shufflePlaylist' /\ Len(playlist') > 0) =>
       LET K == Len(playlist')
           first == 1..Min(K, Len(tunesPlayed'))
       IN /\ \A i, j \in first : i # j => tunesPlayed'[i] # tunesPlayed'[j]
          /\ (/\ last'.op = "tick"
              /\ playlistOrder # NoOrder
              /\ playlistOrder' # playlistOrder)
             => Len(tunesPlayed') > K]_vars

\* the name getState().tune reports for tune i (1-based) of playlist pl
TuneName(pl, i) == IF pl[i].name # "" THEN pl[i].name ELSE "tune-" \o ToString(i - 1)

\* C16: right after setPlaylist(pl, shuffle) with a non-empty pl on a playing
\* player, the active melody is the melody of a tune of pl and the tune name
\* is that tune's.
C16_PlaylistImmediate ==
  [][(last'.op = "setPlaylist" /\ isPlaying /\ Len(playlist') > 0) =>
       \E i \in DOMAIN playlist' :
         /\ melody' = playlist'[i].melody
         /\ currentTuneName' = TuneName(playlist', i)]_vars

\* C17: the tunes of a playlist of K tunes are played one traversal after the
\* other, each traversal playing every tune once, the first one included:
\* the first K tunes selected after the playlist is set are K different
\* tunes, and without shuffle the i-th tune selected is tune (i - 1) mod K.
C17_FullTraversal ==
  Len(playlist) > 0 =>
    LET K == Len(playlist) IN
      /\ \A i, j \in 1..Min(K, Len(tunesPlayed)) :
            i # j => tunesPlayed[i] # tunesPlayed[j]
      /\ ~shufflePlaylist =>
            \A i \in DOMAIN tunesPlayed : tunesPlayed[i] = (i - 1) % K

\* C18: a timer tick that runs on a playing player and returns without an
\* error passes through the loop exactly while nextNoteTime is before
\* currentTime + scheduleAheadSec: it does nothing when the cursor is already
\* there, it schedules at least one step when it is not, on return the
\* cursor is at or past the end of the window, and every note it submitted
\* starts inside the window.
C18_LookaheadWindow ==
  [][(last'.op = "tick" /\ last'.ret = "ok" /\ isPlaying /\ ctx # Null) =>
       LET horizon == now + ScheduleAheadMs IN
         /\ nextNoteTime' # NaN /\ nextNoteTime' >= horizon
         /\ \A n \in notes' \ notes : n.start < horizon
         /\ ~Less(nextNoteTime, horizon) =>
              /\ stepsSinceStart' = stepsSinceStart
              /\ UNCHANGED <<playerVars, envVars>>
         /\ Less(nextNoteTime, horizon) => stepsSinceStart' > stepsSinceStart]_vars

\* C19: every run of the timer callback returns after a bounded number of
\* passes through its loop, whatever tempo and note durations the player
\* has been given through its interface.
C19_TickTerminates == last.ret # "hang"

\* C20: no step of a player that keeps its audio context, a start() after a
\* stop() included, moves nextNoteTime to an earlier value than it held
\* before.
C20_CursorMonotone == [][ctx' = ctx => nextNoteTime' >= nextNoteTime]_vars

\* ------------------------------------------------------- timing claims
\* the beats (in quarters) of pass k, counted from 0, of a session that plays
\* melody mel throughout
BeatsAt(mel, k) ==
  IF Len(mel) = 0 THEN QuartersPerBeat
  ELSE LET n == mel[(k % Len(mel)) + 1]
       IN IF n.dur # NotNumber THEN n.dur ELSE QuartersPerBeat

\* the sum over the first n passes of durationBeats x 60 / tempo, in ms
RECURSIVE Elapsed(_, _, _)
Elapsed(mel, n, bpm) ==
  IF n = 0 THEN 0
  ELSE Elapsed(mel, n - 1, bpm)
       + (BeatsAt(mel, n - 1) * MsPerMinute) \div (bpm * QuartersPerBeat)

\* the number, counted from 0 at start(), of the i-th pass of the trace
PassNo(i) == stepsSinceStart - Len(trace) + i - 1

\* C21: on a player without a playlist, whose tempo stays as it is, pass n
\* after start() begins at t0 plus the sum over the earlier passes of
\* durationBeats x 60 / tempo, with t0 the clock at start() plus 50 ms,
\* however the passes fall into ticks; for the melody C4, E4 of one beat each,
\* no bass and 60 BPM the first three passes begin at t0, t0 + 1 s and
\* t0 + 2 s, the third reading the first note again.
C21_StepTimes ==
  playlist = NoPlaylist =>
    /\ nextNoteTime = t0 + Elapsed(melody, stepsSinceStart, tempo)
    /\ \A i \in DOMAIN trace :
         /\ trace[i].start = t0 + Elapsed(melody, PassNo(i), tempo)
         /\ (melody = MelodyCE /\ bass = <<>> /\ tempo = 60 /\ PassNo(i) < 3) =>
              /\ trace[i].start = t0 + 1000 * PassNo(i)
              /\ PassNo(i) = 2 => trace[i].m = MelodyCE[1]

\* the third pass of the scenario, in a session started after the clock
\* had run for a while
C21_Witness ==
  /\ melody = MelodyCE /\ bass = <<>> /\ tempo = 60 /\ playlist = NoPlaylist
  /\ stepsSinceStart = 3 /\ Len(trace) = 1
  /\ t0 > StartLeadMs
  /\ trace[1].start = t0 + 2000 /\ trace[1].melodyPos = 0
  /\ \E n \in notes : n.midi = 60 /\ n.start = t0 + 2000

\* the cursors seen by the pass after pass i of the trace, or left by the last
PosAfter(i) ==
  IF i < Len(trace') THEN <<trace'[i + 1].melodyPos, trace'[i + 1].bassPos>>
  ELSE <<melodyPos', bassPos'>>

\* C22: every pass of a tick submits at most one melody note and at most one
\* bass note, both starting where the pass starts, and exactly those whose
\* position holds a pitch (so the notes of a voice that start at one time
\* are no more than the passes that start then, the pass that threw
\* included); a pass at a rest submits no note for that voice
\* and still moves the time cursor by the step and both cursors by one
\* position; with an empty melody and an empty bass line a tick submits
\* nothing and raises no error.
C22_StepEmission ==
  [][(last'.op = "tick" /\ isPlaying /\ ctx # Null) =>
       LET new == notes' \ notes
           at(v, t) == {n \in new : n.voice = v /\ n.start = t}
           passesAt(t) ==
             Cardinality({i \in DOMAIN trace' : trace'[i].start = t})
             + (IF last'.ret = "caught" /\ nextNoteTime' = t THEN 1 ELSE 0)
       IN /\ \A n \in new :
               \/ \E i \in DOMAIN trace' : n.start = trace'[i].start
               \/ last'.ret = "caught" /\ n.start = nextNoteTime'
          /\ \A i \in DOMAIN trace' :
               LET e == trace'[i] IN
                 /\ Cardinality(at("melody", e.start)) <= passesAt(e.start)
                 /\ Cardinality(at("bass", e.start)) <= passesAt(e.start)
                 /\ (e.m.midi # NoMidi /\ musicGain) =>
                      \E n \in notes' : /\ n.voice = "melody" /\ n.start = e.start
                                        /\ n.midi = e.m.midi
                 /\ (e.b.midi # NoMidi /\ musicGain) =>
                      \E n \in notes' : /\ n.voice = "bass" /\ n.start = e.start
                                        /\ n.midi = e.b.midi
                 /\ \A n \in at("melody", e.start) : n.midi # NoMidi
                 /\ \A n \in at("bass", e.start) : n.midi # NoMidi
                 /\ (e.m.midi = NoMidi /\ e.next > e.start) =>
                      at("melody", e.start) = {}
                 /\ (e.b.midi = NoMidi /\ e.next > e.start) =>
                      at("bass", e.start) = {}
                 /\ (e.m.midi = NoMidi /\ e.next # NaN) =>
                      e.next = e.start + DurMs(durBeats(e.m), e.tempo)
                 /\ (e.m.midi = NoMidi /\ playlist = NoPlaylist
                     /\ e.melodyPos < Len(melody)) =>
                      PosAfter(i)[1] = (e.melodyPos + 1) % Len(melody)
                 /\ ((e.m.midi = NoMidi \/ e.b.midi = NoMidi)
                     /\ playlist = NoPlaylist /\ e.bassPos < Len(bass)) =>
                      PosAfter(i)[2] = (e.bassPos + 1) % Len(bass)
          /\ (melody = <<>> /\ bass = <<>>) =>
               (notes' = notes /\ last'.ret # "caught")]_vars

\* a tick whose pass read a rest in the melody and a pitch in the bass line:
\* the bass note is out, no melody note starts with it, and the melody
\* cursor has wrapped
C22_Witness ==
  /\ last.op = "tick" /\ last.ret = "ok" /\ Len(trace) = 1
  /\ trace[1].m = MelodyA[2] /\ trace[1].b = BassB[2]
  /\ melodyPos = 0 /\ bassPos = 2
  /\ \E n \in notes : n.voice = "bass" /\ n.start = trace[1].start
  /\ \A n \in notes : n.start = trace[1].start => n.voice = "bass"

\* C23: setSequence and setTempo on a playing player leave it playing with
\* its timer, and what they set is what the next pass uses: setSequence
\* makes the given arrays the melody and the bass line, setTempo(t) with
\* 20 < t < 400 makes t the tempo, and the first pass of every tick reads its
\* notes from the melody and bass line as they are when the tick begins, at
\* the cursors, and lasts durationBeats x 60 / tempo for the tempo of that
\* moment.
C23_NextNote ==
  [][/\ last'.op \in {"setSequence", "setTempo"} =>
          UNCHANGED <<isPlaying, timerId, timers, melodyPos, bassPos, nextNoteTime>>
     /\ (last'.op = "setSequence" /\ last'.arg.given) =>
          /\ last'.arg.hasMelody => melody' = last'.arg.melody
          /\ last'.arg.hasBass => bass' = last'.arg.bass
          /\ (last'.arg.tempo \notin {NotNumber, NaN}
              /\ last'.arg.tempo > TempoMin /\ last'.arg.tempo < TempoMax) =>
               tempo' = last'.arg.tempo
     /\ (last'.op = "tick" /\ trace' # <<>>) =>
          LET e == trace'[1] IN
            /\ e.start = nextNoteTime
            /\ e.m = IF melody = <<>> THEN NoNote ELSE NoteAt(melody, melodyPos)
            /\ e.b = IF bass = <<>> THEN NoNote ELSE NoteAt(bass, bassPos)
            /\ tempo # NaN =>
                 e.next = e.start
                   + ((IF e.m.dur # NotNumber THEN e.m.dur ELSE QuartersPerBeat)
                      * MsPerMinute) \div (tempo * QuartersPerBeat)]_vars

\* a tick of a session that had made a pass before setSequence replaced the
\* melody at tempo 120: its first pass reads the new melody's note
C23_Witness ==
  /\ last.op = "tick" /\ last.ret = "ok" /\ isPlaying
  /\ edited /\ melody = MelodyB /\ tempo = DefaultTempo
  /\ stepsSinceStart >= 2 /\ Len(trace) = 1
  /\ trace[1].m = MelodyB[1]
  /\ trace[1].next = trace[1].start + 125

\* C24 as claimed: the oscillators of every note, whatever the instrument,
\* start at the note's start time and are told to stop at
\* startTime + durationSec + 0.02.
C24_OscStopExact == \A n \in notes : n.stop = n.start + n.dur + StopEpsMs

\* C24: the oscillators of every note start at the note's start time and are
\* told to stop: at startTime + durationSec + 0.02 for every instrument but
\* the bell, and at startTime + max(durationSec, 0.8) + 0.02 for the bell.
C24_OscStopBell ==
  \A n \in notes :
    n.stop = n.start + StopEpsMs
             + (IF n.inst = "bell" /\ n.dur < BellMinMs THEN BellMinMs ELSE n.dur)

\* a bell note of 147 ms and a flute note sounding together
C24_Witness ==
  /\ \E n \in notes : n.inst = "bell" /\ n.dur < BellMinMs
                      /\ n.stop = n.start + BellMinMs + StopEpsMs
  /\ \E n \in notes : n.inst = "flute" /\ n.stop = n.start + n.dur + StopEpsMs

\* C25: the volume the player holds is always a number within [0, 1] (0 to
\* 100 percent), whatever was given at construction or to setVolume.
C25_VolumeRange == volume # NaN /\ 0 <= volume /\ volume <= 100

\* frequencies of the equal-tempered scale at A4 = 440 Hz, in mHz (rounded
\* down): E2, C3, A3, C4, E4, G4, A4, C5, A5
ConcertPitch ==
  [m \in {40, 48, 57, 60, 64, 67, 69, 72, 81} |->
     CASE m = 40 -> 82406 [] m = 48 -> 130812 [] m = 57 -> 220000
       [] m = 60 -> 261625 [] m = 64 -> 329627 [] m = 67 -> 391995
       [] m = 69 -> 440000 [] m = 72 -> 523251 [] m = 81 -> 880000]

Near(a, b) == a - b <= 1 /\ b - a <= 1

\* C26: the frequency handed to the audio engine for pitch p is
\* 440 x 2^((p - 69) / 12) Hz: pitch 69 gets 440 Hz exactly, the pitches of
\* the table get the frequencies of the scale, and the pitch twelve above p
\* gets twice the frequency of p (all to the last digit kept, 1 mHz).
C26_MidiToFreq ==
  \A n \in notes :
    /\ n.freq # NaN /\ n.freq > 0
    /\ n.midi = 69 => n.freq = 440000
    /\ n.midi \in DOMAIN ConcertPitch => Near(n.freq, ConcertPitch[n.midi])
    /\ \A n2 \in notes : n2.midi = n.midi + 12 => Near(n2.freq, 2 * n.freq)
    /\ \A n2 \in notes : n2.midi > n.midi => n2.freq > n.freq

\* A4 in the melody and A5 in the bass line, sounding together
C26_Witness ==
  /\ \E n \in notes : n.voice = "melody" /\ n.midi = 69 /\ n.freq = 440000
  /\ \E n \in notes : n.voice = "bass" /\ n.midi = 81 /\ n.freq = 880000

\* the tunes of playlist pl that go by the name nm
TunesNamed(pl, nm) == {j \in DOMAIN pl : TuneName(pl, j) = nm}

\* C27: every pass made while a playlist tune with a tempo T, 20 < T < 400,
\* is the active tune moves the time cursor by durationBeats x 60 / T, the
\* passes made in the tick in which the playlist moved on to that tune
\* included.
C27_TuneTempo ==
  \A i \in DOMAIN trace :
    \A j \in TunesNamed(playlist, trace[i].tune) :
      LET e == trace[i]
          T == playlist[j].tempo
          beats == IF e.m.dur # NotNumber THEN e.m.dur ELSE QuartersPerBeat
      IN (T \notin {NotNumber, NaN} /\ T > TempoMin /\ T < TempoMax) =>
           e.next = e.start + (beats * MsPerMinute) \div (T * QuartersPerBeat)

\* the events of the passes of the trace
Events(tr) ==
  [i \in DOMAIN tr |->
     Event(tr[i].melodyPos, tr[i].bassPos, tr[i].start, tr[i].tune)]

\* C28: given the same options, the same clock readings and the same tick
\* times, the UMD build's player and the player with separate cursors make
\* the same passes in every tick: the same melody and bass positions at the
\* same start times, in the same tunes, with a playlist and without.
C28_BuildsAgree ==
  (umd # NoTwin /\ last.op = "tick") =>
    /\ Events(trace) = umd.events
    /\ nextNoteTime = umd.nextNoteTime

\* the length in quarter-beats that a pass takes from its melody note: the
\* note's dur, or one beat when there is no note or its dur is no number
StepQuarters(p) ==
  IF p.m # NoNote /\ IsNumber(p.m.dur) THEN p.m.dur ELSE QuartersPerBeat

\* the length in quarter-beats that the bass note of a pass is given
BassQuarters(p) == IF IsNumber(p.b.dur) THEN p.b.dur ELSE QuartersPerBeat

C30_TuneInstrument ==
  \A i \in DOMAIN trace :
    \A j \in TunesNamed(playlist, trace[i].tune) :
      (hasPitch(trace[i].m) \/ hasPitch(trace[i].b)) =>
        playOscNote(trace[i].inst) = playOscNote(playlist[j].instrument)

\* C31: start() does not wait for the resume it asks for: a start() that
\* gets a context returns with isPlaying true and its timer registered, with
\* the resume of a suspended context still pending; when that resume later
\* fulfils or rejects, isPlaying and the timer stay as they are, and the
\* rejection ends in unlock()'s catch (the promise resolves to false, nothing
\* is left rejected).
C31_StartDoesNotWait ==
  [][/\ (last'.op = "start" /\ ~(isPlaying \/ ~enabled \/ muted)
         /\ last'.ret = "ok" /\ ctx' # Null) =>
          /\ isPlaying' /\ timerId' # Null /\ timerId' \in timers'
          /\ ctxState'[ctx'] = "suspended" =>
               pending' = Append(pending, [ctx |-> ctx', src |-> "start"])
     /\ last'.op = "startResumeOk" =>
          (last'.ret = "true" /\ UNCHANGED <<isPlaying, timerId, timers>>)
     /\ last'.op = "startResumeFail" =>
          (last'.ret = "false" /\ UNCHANGED <<isPlaying, timerId, timers>>)]_vars

\* the resume asked for by start() failed after a tick of the session had
\* run, and the player plays on with its timer
C31_Witness ==
  /\ last = [op |-> "startResumeFail", ret |-> "false", was |-> TRUE]
  /\ isPlaying /\ timers = {timerId} /\ stepsSinceStart > 0
  /\ ctx # Null /\ ctxState[ctx] = "suspended"

\* C32: every statechange notification of a context of the player is handled
\* without an error, whatever calls of the control surface came between the
\* change of state and the delivery, destroy() included.
C32_NoticeHandled == last.op = "statechange" => last.ret = "ok"

\* the player plays on a running context
Playing == isPlaying /\ ctx # Null /\ ctxState[ctx] = "running"

\* tune j of the playlist is the active tune, or was it in a pass of the
\* step just taken
Selected(j) ==
  j \in DOMAIN playlist =>
    \/ currentTuneName = TuneName(playlist, j)
    \/ \E i \in DOMAIN trace : trace[i].tune = TuneName(playlist, j)

\* C33: while the player plays, the clock runs and the timer fires, playback
\* of a playlist whose tunes all have a melody array (one of length 0
\* included) moves on to the next tune again and again: from every moment of
\* playing on, every tune of the playlist becomes the active tune.
C33_EveryTune ==
  \A j \in DOMAIN PlaylistXQY : Playing ~> Selected(j)

\* C34: when the first run of the timer comes within 50 ms of start() and
\* every later run within 120 ms of the one before it, every note is
\* submitted with a start time not earlier than the clock reading at which
\* it is submitted, whatever the gaps within those limits.
C34_NotesAhead ==
  [][\A i \in DOMAIN trace' :
       (hasPitch(trace'[i].m) \/ hasPitch(trace'[i].b)) =>
         /\ trace'[i].start >= now
         /\ \E n \in notes' : n.start = trace'[i].start /\ n.start >= now']_vars

\* a timer run that came the full 120 ms after the one before it submits a
\* note that starts at the clock reading itself
C34_Witness ==
  /\ last.op = "tick" /\ last.ret = "ok" /\ stepsSinceStart > Len(trace)
  /\ \E i \in DOMAIN trace :
       /\ hasPitch(trace[i].m)
       /\ trace[i].start = now
       /\ \E n \in notes : n.voice = "melody" /\ n.start = now

\* C35: in every reachable state timerId is non-null exactly when isPlaying
\* is true, and at most one interval timer of the player is registered: the
\* one timerId names while the player plays, none otherwise.
C35_OneTimer ==
  /\ (timerId # Null) <=> isPlaying
  /\ Cardinality(timers) <= 1
  /\ timers = IF isPlaying THEN {timerId} ELSE {}

\* a session begun after a destroy(), on a second context, with one timer
C35_Witness ==
  /\ last = [op |-> "start", ret |-> "ok", was |-> FALSE]
  /\ Destroyed /\ isPlaying /\ timerId # Null /\ timers = {timerId}

\* C36: in every reachable state a player that is playing is enabled, is not
\* muted and holds an audio context.
C36_PlayingImplies == isPlaying => (enabled /\ ~muted /\ ctx # Null)

\* setMuted(false) and setEnabled(true) on a playing player, which plays on
C36_Witness ==
  /\ last.op \in {"setMuted", "setEnabled"} /\ last.was
  /\ isPlaying /\ enabled /\ ~muted /\ ctx # Null /\ timers = {timerId}
  /\ stepsSinceStart > 0

\* C37: in every reachable state the tempo of the player, which getState()
\* reports as it is, lies strictly between 20 and 400 BPM, whatever the
\* options the player was made with and whatever setTempo, setSequence,
\* setPlaylist and the playlist did since.
C37_TempoRange == tempo # NaN /\ tempo > TempoMin /\ tempo < TempoMax

\* C38: whenever a non-empty playlist of K tunes has a traversal order, the
\* order holds each of 0..K-1 exactly once and 0 <= playlistPos < K, after
\* every setPlaylist, tune advance and reshuffle.
C38_OrderPermutation ==
  (Len(playlist) > 0 /\ playlistOrder # NoOrder) =>
    /\ Len(playlistOrder) = Len(playlist)
    /\ {playlistOrder[i] : i \in DOMAIN playlistOrder} = 0..(Len(playlist) - 1)
    /\ 0 <= playlistPos /\ playlistPos < Len(playlist)

\* a shuffled playlist has been run through and shuffled again, into the
\* order 1, 0
C38_Witness ==
  /\ last.op = "tick" /\ shufflePlaylist /\ Len(playlist) > 1
  /\ Len(tunesPlayed) > Len(playlist)
  /\ playlistOrder = <<1, 0>> /\ playlistPos = 0
====
